---- MODULE Spec2Model ----
(***************************************************************************)
(* LiteCertificate (linera-chain/src/certificate/lite.rs) and the          *)
(* HashView implementations (linera-views/src/hash.rs).                    *)
(*                                                                         *)
(* Option<T> is a sequence of length at most one: None is <<>> and         *)
(* Some(x) is <<x>>.                                                       *)
(***************************************************************************)
EXTENDS Integers, Sequences, FiniteSets, TLC

None == <<>>
Some(x) == <<x>>

(***************************************************************************)
(* Bounds of the model.                                                    *)
(***************************************************************************)
\* longest vote sequence handed to try_from_votes / new
MaxVotes == 3

(***************************************************************************)
(* Data: validator keys (ordered), rounds, value descriptors, signatures.  *)
(***************************************************************************)
A == 1
B == 2
C == 3
D == 4
E == 5

Rounds == {0, 1}
Kinds == {"Validated", "Confirmed"}

\* LiteValue { value_hash, chain_id, kind }
LiteValue(h, c, k) == [value_hash |-> h, chain_id |-> c, kind |-> k]

\* A ValidatorSignature is the statement its signer signed.
Sign(pk, h, r, k) == [signer |-> pk, value_hash |-> h, round |-> r, kind |-> k]

\* A signature by pk over some other statement: it verifies for no vote here.
Forged(pk) == Sign(pk, 0, 0, "Timeout")

\* LiteVote { value, round, public_key, signature }
LiteVote(v, r, pk, sig) ==
    [value |-> v, round |-> r, public_key |-> pk, signature |-> sig]

\* A vote of pk for (v, r), honestly signed or carrying a forged signature.
Vote(v, r, pk, honest) ==
    LiteVote(v, r, pk,
             IF honest THEN Sign(pk, v.value_hash, r, v.kind) ELSE Forged(pk))

\* All sequences over S of length at most n.
SeqUpTo(S, n) == UNION {[1..m -> S] : m \in 0..n}

(***************************************************************************)
(* signatures.sort_by_key(|&(validator_name, _)| validator_name): the      *)
(* standard library's stable sort, entries with equal keys keep their      *)
(* input order.                                                            *)
(***************************************************************************)
\* s with x put after the last entry whose key is <= x's key (s is sorted)
InsertByKey(x, s) ==
    LET n == Cardinality({i \in 1..Len(s) : s[i][1] <= x[1]})
    IN  SubSeq(s, 1, n) \o <<x>> \o SubSeq(s, n + 1, Len(s))

RECURSIVE sort_by_key(_)
sort_by_key(s) ==
    IF s = <<>> THEN <<>>
    ELSE InsertByKey(s[Len(s)], sort_by_key(SubSeq(s, 1, Len(s) - 1)))

(***************************************************************************)
(* impl LiteCertificate                                                    *)
(***************************************************************************)
\* new without the sort: the signature list is stored as given
LiteCertificate_new_unsorted(value, round, signatures) ==
    [value |-> value, round |-> round, signatures |-> signatures]

LiteCertificate_new(value, round, signatures) ==
    [value |-> value, round |-> round, signatures |-> sort_by_key(signatures)]

\* the loop of try_from_votes over votes[i..]: None at the first vote whose
\* value_hash or round differs from the first vote's, else the pairs pushed
RECURSIVE PushVotes(_, _, _, _)
PushVotes(votes, i, value, round) ==
    IF i > Len(votes) THEN Some(<<>>)
    ELSE IF votes[i].value.value_hash # value.value_hash \/ votes[i].round # round
         THEN None
         ELSE LET rest == PushVotes(votes, i + 1, value, round)
              IN  IF rest = None THEN None
                  ELSE Some(<<<<votes[i].public_key, votes[i].signature>>>>
                            \o rest[1])

\* try_from_votes with a fault: the certificate is built from the votes
\* that match the first one
MatchingPairs(votes) ==
    LET keep == {i \in 1..Len(votes) :
                    /\ votes[i].value.value_hash = votes[1].value.value_hash
                    /\ votes[i].round = votes[1].round}
        F[i \in 0..Len(votes)] ==
            IF i = 0 THEN <<>>
            ELSE IF i \in keep
                 THEN F[i - 1] \o <<<<votes[i].public_key, votes[i].signature>>>>
                 ELSE F[i - 1]
    IN  F[Len(votes)]

try_from_votes_subset(votes) ==
    IF votes = <<>> THEN None
    ELSE Some(LiteCertificate_new(votes[1].value, votes[1].round,
                                  MatchingPairs(votes)))

\* try_from_votes with a fault: one signature is kept for each public key
RECURSIVE DedupByKey(_)
DedupByKey(s) ==
    IF s = <<>> THEN <<>>
    ELSE LET init == DedupByKey(SubSeq(s, 1, Len(s) - 1))
         IN  IF \E i \in 1..Len(init) : init[i][1] = s[Len(s)][1]
             THEN init ELSE init \o <<s[Len(s)]>>

try_from_votes_dedup(votes) ==
    IF votes = <<>> THEN None
    ELSE LET rest == PushVotes(votes, 2, votes[1].value, votes[1].round)
         IN  IF rest = None THEN None
             ELSE Some(LiteCertificate_new(votes[1].value, votes[1].round,
                     DedupByKey(<<<<votes[1].public_key, votes[1].signature>>>>
                                \o rest[1])))

try_from_votes(votes) ==
    IF votes = <<>> THEN None
    ELSE LET rest == PushVotes(votes, 2, votes[1].value, votes[1].round)
         IN  IF rest = None THEN None
             ELSE Some(LiteCertificate_new(votes[1].value, votes[1].round,
                     <<<<votes[1].public_key, votes[1].signature>>>> \o rest[1]))


(***************************************************************************)
(* The Committee collaborator and data_types::check_signatures, which are  *)
(* used by check and live outside the two files: a committee exposes the   *)
(* validators' keys, their voting weights and the quorum threshold;        *)
(* check_signatures folds over the signature list, resolving each signer   *)
(* through the committee and verifying the signature, then compares the    *)
(* summed weight with the threshold.                                       *)
(***************************************************************************)
Committee(validators, weight, threshold) ==
    [validators |-> validators, weight |-> weight,
     quorum_threshold |-> threshold]

\* weights {A:1, B:1, C:1, D:1}, threshold 3
UnitCommittee == Committee({A, B, C, D}, [k \in {A, B, C, D} |-> 1], 3)
\* weights {A:2, B:1, C:1}, threshold 3
WeightedCommittee ==
    Committee({A, B, C}, [k \in {A, B, C} |-> IF k = A THEN 2 ELSE 1], 3)
Committees == {UnitCommittee, WeightedCommittee}

\* ValidatorSignature::verify for the statement (value_hash, round, kind)
verify(pk, sig, value_hash, round, kind) ==
    sig = Sign(pk, value_hash, round, kind)

RECURSIVE SumWeights(_, _)
SumWeights(signatures, committee) ==
    IF signatures = <<>> THEN 0
    ELSE committee.weight[signatures[1][1]]
         + SumWeights(Tail(signatures), committee)

check_signatures(value_hash, kind, round, signatures, committee) ==
    LET bad == {i \in 1..Len(signatures) :
                   \/ signatures[i][1] \notin committee.validators
                   \/ ~verify(signatures[i][1], signatures[i][2],
                              value_hash, round, kind)}
        first == CHOOSE i \in bad : \A j \in bad : i <= j
    IN  IF bad # {}
        THEN IF signatures[first][1] \notin committee.validators
             THEN <<"Err", "UnknownValidator">>
             ELSE <<"Err", "InvalidSignature">>
        ELSE IF SumWeights(signatures, committee) < committee.quorum_threshold
             THEN <<"Err", "InsufficientQuorum">>
             ELSE <<"Ok">>

\* check with a fault: the result of check_signatures is dropped
check_unchecked(self, committee) == <<"Ok", self.value>>

\* Result<&LiteValue, ChainError>: <<"Ok", value>> or <<"Err", error>>
check(self, committee) ==
    LET r == check_signatures(self.value.value_hash, self.value.kind,
                              self.round, self.signatures, committee)
    IN  IF r[1] = "Err" THEN r ELSE <<"Ok", self.value>>

(***************************************************************************)
(* A payload T: CertificateValue, seen through chain_id(), hash() and      *)
(* T::KIND; GenericCertificate::new(value, round, signatures) holds the    *)
(* payload with the round and the signatures.                              *)
(***************************************************************************)
Payload(h, c, k) == [content_hash |-> h, chain |-> c, KIND |-> k]
chain_id(value) == value.chain
hash(value) == value.content_hash
KIND(value) == value.KIND

GenericCertificate_new(value, round, signatures) ==
    [value |-> value, round |-> round, signatures |-> signatures]

check_value(self, value) ==
    /\ self.value.chain_id = chain_id(value)
    /\ KIND(value) = self.value.kind
    /\ self.value.value_hash = hash(value)

\* with_value with a fault: the kinds are not compared
with_value_any_kind(self, value) ==
    IF \/ self.value.chain_id # chain_id(value)
       \/ self.value.value_hash # hash(value)
    THEN None
    ELSE Some(GenericCertificate_new(value, self.round, self.signatures))

\* with_value with a fault: whatever payload it is given is bound
with_value_unmatched(self, value) ==
    Some(GenericCertificate_new(value, self.round, self.signatures))

with_value(self, value) ==
    IF \/ self.value.chain_id # chain_id(value)
       \/ KIND(value) # self.value.kind
       \/ self.value.value_hash # hash(value)
    THEN None
    ELSE Some(GenericCertificate_new(value, self.round, self.signatures))

cloned(self) ==
    [value |-> self.value, round |-> self.round,
     signatures |-> self.signatures]


(***************************************************************************)
(* Hashing (linera-views/src/hash.rs).  A Hasher accumulates the bytes     *)
(* written to it.  finalize is modelled as an ideal digest: the digest     *)
(* stands for the byte string it was computed from, delimited as one block *)
(* (a digest has a fixed size), so that two digests are equal exactly when *)
(* their inputs are.                                                       *)
(***************************************************************************)
DigestOpen == 256
DigestClose == 257

Hasher_default == <<>>
write_all(hasher, bytes) == hasher \o bytes
finalize(hasher) == <<DigestOpen>> \o hasher \o <<DigestClose>>
\* hash.as_ref(): the raw bytes of a digest
as_ref(digest) == digest

\* the w low bytes of n, little endian
RECURSIVE LittleEndian(_, _)
LittleEndian(n, w) ==
    IF w = 0 THEN <<>> ELSE <<n % 256>> \o LittleEndian(n \div 256, w - 1)

\* bcs of a usize (serialized as u64): eight bytes, little endian
bcs_usize(n) == LittleEndian(n, 8)
\* bcs of a u8 (the index type I and the value type V of the model)
bcs_u8(x) == <<x % 256>>
serialize_into(hasher, bytes) == write_all(hasher, bytes)

RECURSIVE SortedSeq(_)
SortedSeq(S) ==
    IF S = {} THEN <<>>
    ELSE LET m == CHOOSE x \in S : \A y \in S : x <= y
         IN  <<m>> \o SortedSeq(S \ {m})

(***************************************************************************)
(* MapView<C, I, V> as the store holds it: the entries in the order they   *)
(* were first written, and the keys whose value the store no longer finds  *)
(* although it still enumerates them (a store/index inconsistency).        *)
(***************************************************************************)
MapView_new == [entries |-> <<>>, lost |-> {}]

MapKeys(m) == {m.entries[i][1] : i \in 1..Len(m.entries)}

MapView_insert(m, index, value) ==
    [entries |->
        IF index \in MapKeys(m)
        THEN [i \in 1..Len(m.entries) |->
                 IF m.entries[i][1] = index THEN <<index, value>>
                 ELSE m.entries[i]]
        ELSE Append(m.entries, <<index, value>>),
     lost |-> m.lost \ {index}]

MapView_remove(m, index) ==
    [entries |-> SelectSeq(m.entries, LAMBDA e : e[1] # index),
     lost |-> m.lost \ {index}]

\* indices(): the keys, ascending
MapView_indices(m) == SortedSeq(MapKeys(m))

\* get(&index): Option<V>
MapView_get(m, index) ==
    IF index \notin MapKeys(m) \/ index \in m.lost THEN None
    ELSE Some((CHOOSE e \in {m.entries[i] : i \in 1..Len(m.entries)} :
                   e[1] = index)[2])

\* the loop with a fault: the value is written before its index
RECURSIVE MapHashLoopValueFirst(_, _, _)
MapHashLoopValueFirst(m, indices, hasher) ==
    IF indices = <<>> THEN <<"Ok", finalize(hasher)>>
    ELSE LET value == MapView_get(m, Head(indices))
         IN  IF value = None
             THEN <<"Panic", "The value for the returned index should be present">>
             ELSE MapHashLoopValueFirst(m, Tail(indices),
                    serialize_into(serialize_into(hasher, bcs_u8(value[1])),
                                   bcs_u8(Head(indices))))

MapView_hash_value_first(m) ==
    LET indices == MapView_indices(m)
    IN  MapHashLoopValueFirst(m, indices,
            serialize_into(Hasher_default, bcs_usize(Len(indices))))

\* the loop with a fault: an index whose value is not found is skipped
RECURSIVE MapHashLoopSkipping(_, _, _)
MapHashLoopSkipping(m, indices, hasher) ==
    IF indices = <<>> THEN <<"Ok", finalize(hasher)>>
    ELSE LET value == MapView_get(m, Head(indices))
         IN  IF value = None
             THEN MapHashLoopSkipping(m, Tail(indices), hasher)
             ELSE MapHashLoopSkipping(m, Tail(indices),
                    serialize_into(serialize_into(hasher, bcs_u8(Head(indices))),
                                   bcs_u8(value[1])))

MapView_hash_skipping(m) ==
    LET indices == MapView_indices(m)
    IN  MapHashLoopSkipping(m, indices,
            serialize_into(Hasher_default, bcs_usize(Len(indices))))

\* for index in indices { get(&index).expect(..); index; value }
RECURSIVE MapHashLoop(_, _, _)
MapHashLoop(m, indices, hasher) ==
    IF indices = <<>> THEN <<"Ok", finalize(hasher)>>
    ELSE LET value == MapView_get(m, Head(indices))
         IN  IF value = None
             THEN <<"Panic", "The value for the returned index should be present">>
             ELSE MapHashLoop(m, Tail(indices),
                    serialize_into(serialize_into(hasher, bcs_u8(Head(indices))),
                                   bcs_u8(value[1])))

\* <<"Ok", digest>>, <<"Err", error>>, or <<"Panic", message>>
MapView_hash(m) ==
    LET indices == MapView_indices(m)
    IN  MapHashLoop(m, indices,
            serialize_into(Hasher_default, bcs_usize(Len(indices))))

(***************************************************************************)
(* CollectionView<C, I, W> with W = MapView: the children by index, and    *)
(* the indices the store still enumerates but no longer finds.  load_entry *)
(* returns Result<&mut W, C::Error>: for an index the store does not find  *)
(* it either fails or materializes a default view, as the store decides.   *)
(***************************************************************************)
CollectionView_new == [children |-> <<>>, lost |-> {}]

OnMissing == {"Err", "Default"}

CollectionView_indices(c) == SortedSeq(DOMAIN c.children)

load_entry(c, index, onMissing) ==
    IF index \notin DOMAIN c.children THEN <<"Ok", MapView_new>>
    ELSE IF index \in c.lost
         THEN IF onMissing = "Err" THEN <<"Err", "StorageError">>
              ELSE <<"Ok", MapView_new>>
         ELSE <<"Ok", c.children[index]>>

\* the entry at index replaced by view (created if it was not there)
WithEntry(c, index, view) ==
    [children |-> [i \in DOMAIN c.children \cup {index} |->
                      IF i = index THEN view ELSE c.children[i]],
     lost |-> c.lost \ {index}]

CollectionView_remove_entry(c, index) ==
    [children |-> [i \in DOMAIN c.children \ {index} |-> c.children[i]],
     lost |-> c.lost \ {index}]

\* the loop with a fault: the indices are written, the children's digests
\* are left out
RECURSIVE CollectionHashLoopNoChild(_, _, _, _)
CollectionHashLoopNoChild(c, indices, hasher, onMissing) ==
    IF indices = <<>> THEN <<"Ok", finalize(hasher)>>
    ELSE LET h1 == serialize_into(hasher, bcs_u8(Head(indices)))
             view == load_entry(c, Head(indices), onMissing)
         IN  IF view[1] = "Err" THEN view
             ELSE LET child == MapView_hash(view[2])
                  IN  IF child[1] # "Ok" THEN child
                      ELSE CollectionHashLoopNoChild(c, Tail(indices), h1,
                                                     onMissing)

CollectionView_hash_no_child(c, onMissing) ==
    LET indices == CollectionView_indices(c)
    IN  CollectionHashLoopNoChild(c, indices,
            serialize_into(Hasher_default, bcs_usize(Len(indices))), onMissing)

\* for index in indices { index; load_entry(index)?; view.hash()?; raw digest }
RECURSIVE CollectionHashLoop(_, _, _, _)
CollectionHashLoop(c, indices, hasher, onMissing) ==
    IF indices = <<>> THEN <<"Ok", finalize(hasher)>>
    ELSE LET h1 == serialize_into(hasher, bcs_u8(Head(indices)))
             view == load_entry(c, Head(indices), onMissing)
         IN  IF view[1] = "Err" THEN view
             ELSE LET child == MapView_hash(view[2])
                  IN  IF child[1] # "Ok" THEN child
                      ELSE CollectionHashLoop(c, Tail(indices),
                               write_all(h1, as_ref(child[2])), onMissing)

CollectionView_hash(c, onMissing) ==
    LET indices == CollectionView_indices(c)
    IN  CollectionHashLoop(c, indices,
            serialize_into(Hasher_default, bcs_usize(Len(indices))), onMissing)

(***************************************************************************)
(* The certificate state machine.  arg is what the caller constructs a     *)
(* certificate from; certs are the caller's LiteCertificate handles (the   *)
(* one it constructed and the one cloned() returned), None before a handle *)
(* holds a certificate and after the certificate was moved out of it;      *)
(* generic is the GenericCertificate with_value returned; last is the last *)
(* call with its arguments and what it returned; checked records that a    *)
(* check of the certificate has returned Ok.                               *)
(*                                                                         *)
(* maps are two MapViews of one store; coll is a CollectionView of         *)
(* MapViews and sibling a MapView beside it, not one of its children;      *)
(* vlast is the last call on a view with what it returned.                 *)
(***************************************************************************)
VARIABLES arg, certs, generic, last, checked, maps, coll, sibling, vlast

certVars == <<arg, certs, generic, last, checked>>
viewVars == <<maps, coll, sibling, vlast>>
vars == <<arg, certs, generic, last, checked, maps, coll, sibling, vlast>>

MapIds == {1, 2}

NoViews ==
    /\ maps = [m \in MapIds |-> MapView_new]
    /\ coll = CollectionView_new
    /\ sibling = MapView_new
    /\ vlast = [op |-> "none"]

Handles == {"self", "copy"}

\* descriptors voted on: two hashes, and one hash on another chain and kind
VoteValues == {LiteValue(1, 1, "Validated"), LiteValue(2, 1, "Validated"),
               LiteValue(1, 2, "Confirmed")}
\* the votes of A, B and C for them, and a second vote of A that carries
\* another signature (the signatures are opaque to try_from_votes and new)
VoteKeys == {A, B, C}
VoteDomain ==
    {Vote(v, r, pk, TRUE) : v \in VoteValues, r \in Rounds, pk \in VoteKeys}
        \cup {Vote(v, r, A, FALSE) : v \in VoteValues, r \in Rounds}

\* votes of one round for one descriptor, by the validators A..D, by the
\* non-member E, and one with a forged signature
BallotValues == {LiteValue(1, 1, "Validated"), LiteValue(1, 1, "Confirmed")}
Ballots(v) ==
    {Vote(v, 1, pk, TRUE) : pk \in {A, B, C, D, E}} \cup {Vote(v, 1, B, FALSE)}

\* payloads offered to check_value and with_value
Payloads ==
    {Payload(1, 1, "Validated"), Payload(2, 1, "Validated"),
     Payload(1, 2, "Validated"), Payload(1, 1, "Confirmed")}

Pairs(votes) ==
    [i \in 1..Len(votes) |-> <<votes[i].public_key, votes[i].signature>>]

NoCall == [op |-> "none"]

NoCertificate ==
    /\ arg = [value |-> LiteValue(1, 1, "Validated"), round |-> 0,
              votes |-> <<>>]
    /\ certs = [h \in Handles |-> None]
    /\ generic = None
    /\ last = NoCall
    /\ checked = FALSE

InitRest ==
    /\ certs = [h \in Handles |-> None]
    /\ generic = None
    /\ last = NoCall
    /\ checked = FALSE
    /\ NoViews

\* any votes: for try_from_votes and new as functions of their input
InitVotes ==
    /\ \E votes \in SeqUpTo(VoteDomain, MaxVotes) :
         \E v \in VoteValues, r \in Rounds :
            /\ votes # <<>> => v = votes[1].value /\ r = votes[1].round
            /\ votes = <<>> => r = 0
            /\ arg = [value |-> v, round |-> r, votes |-> votes]
    /\ InitRest

\* the ballots of one round for one descriptor: for the life of a certificate
InitBallots ==
    /\ \E v \in BallotValues :
         \E votes \in SeqUpTo(Ballots(v), MaxVotes) :
            arg = [value |-> v, round |-> 1, votes |-> votes]
    /\ InitRest

\* LiteCertificate::new(value, round, signatures)
New ==
    /\ last = NoCall
    /\ certs' = [certs EXCEPT !["self"] =
                    Some(LiteCertificate_new(arg.value, arg.round,
                                             Pairs(arg.votes)))]
    /\ last' = [op |-> "new"]
    /\ UNCHANGED viewVars
    /\ UNCHANGED <<arg, generic, checked>>

\* LiteCertificate::try_from_votes(votes)
TryFromVotes ==
    /\ last = NoCall
    /\ certs' = [certs EXCEPT !["self"] = try_from_votes(arg.votes)]
    /\ last' = [op |-> "try_from_votes"]
    /\ UNCHANGED viewVars
    /\ UNCHANGED <<arg, generic, checked>>

\* certs[h].check(&committee): the certificate is borrowed
Check ==
    \E h \in Handles, committee \in Committees :
        /\ certs[h] # None
        /\ last' = [op |-> "check", handle |-> h, self |-> certs[h][1],
                    committee |-> committee,
                    ret |-> check(certs[h][1], committee)]
        /\ checked' = (checked \/ check(certs[h][1], committee)[1] = "Ok")
        /\ UNCHANGED viewVars
        /\ UNCHANGED <<arg, certs, generic>>

\* certs[h].check_value(&value): the certificate is borrowed
CheckValue ==
    \E h \in Handles, value \in Payloads :
        /\ certs[h] # None
        /\ last' = [op |-> "check_value", handle |-> h, self |-> certs[h][1],
                    value |-> value, ret |-> check_value(certs[h][1], value)]
        /\ UNCHANGED viewVars
        /\ UNCHANGED <<arg, certs, generic, checked>>

\* WithValue with a fault: the certificate is only borrowed
WithValueBorrowing ==
    \E h \in Handles, value \in Payloads :
        /\ certs[h] # None
        /\ generic = None
        /\ generic' = with_value(certs[h][1], value)
        /\ last' = [op |-> "with_value", handle |-> h, self |-> certs[h][1],
                    value |-> value, ret |-> with_value(certs[h][1], value)]
        /\ UNCHANGED viewVars
        /\ UNCHANGED <<arg, certs, checked>>

\* certs[h].with_value(value): self is taken by value, so the certificate
\* is moved out of the handle whatever is returned
WithValue ==
    \E h \in Handles, value \in Payloads :
        /\ certs[h] # None
        /\ generic = None
        /\ certs' = [certs EXCEPT ![h] = None]
        /\ generic' = with_value(certs[h][1], value)
        /\ last' = [op |-> "with_value", handle |-> h, self |-> certs[h][1],
                    value |-> value, ret |-> with_value(certs[h][1], value)]
        /\ UNCHANGED viewVars
        /\ UNCHANGED <<arg, checked>>

\* certs["self"].cloned()
Cloned ==
    /\ certs["self"] # None
    /\ certs["copy"] = None
    /\ certs' = [certs EXCEPT !["copy"] = Some(cloned(certs["self"][1]))]
    /\ last' = [op |-> "cloned", handle |-> "self", self |-> certs["self"][1]]
    /\ UNCHANGED viewVars
    /\ UNCHANGED <<arg, generic, checked>>

NextVotes == New \/ TryFromVotes
SpecVotes == InitVotes /\ [][NextVotes]_vars

Next == New \/ TryFromVotes \/ Check \/ CheckValue \/ WithValue \/ Cloned
Spec == InitBallots /\ [][Next]_vars


(***************************************************************************)
(* Properties of the certificate operations.                               *)
(***************************************************************************)
SameHashAndRound(votes, i) ==
    /\ votes[i].value.value_hash = votes[1].value.value_hash
    /\ votes[i].round = votes[1].round

Keys(signatures) == {signatures[i][1] : i \in 1..Len(signatures)}

DistinctKeys(signatures) ==
    \A i, j \in 1..Len(signatures) :
        signatures[i][1] = signatures[j][1] => i = j

DistinctPairs(signatures) ==
    \A i, j \in 1..Len(signatures) : signatures[i] = signatures[j] => i = j

SortedByKey(signatures) ==
    \A i, j \in 1..Len(signatures) :
        i < j => signatures[i][1] <= signatures[j][1]

Count(s, x) == Cardinality({i \in 1..Len(s) : s[i] = x})

Permuted(s, p) == [i \in 1..Len(s) |-> s[p[i]]]

\* C1: try_from_votes returns None for no votes and whenever a vote after
\* the first differs from the first in value_hash or round (never a
\* certificate of the matching votes); it returns a certificate only when
\* every vote has the first vote's value_hash and round.
C1_TryFromVotesAllOrNothing ==
    last.op = "try_from_votes" =>
        LET votes == arg.votes
            ret == certs["self"]
        IN  /\ votes = <<>> => ret = None
            /\ (\E i \in 2..Len(votes) : ~SameHashAndRound(votes, i))
                  => ret = None
            /\ ret # None =>
                  /\ votes # <<>>
                  /\ \A i \in 1..Len(votes) : SameHashAndRound(votes, i)

\* a mixed input: the second vote matches the first, the third does not
C1_Witness ==
    /\ last.op = "try_from_votes"
    /\ Len(arg.votes) = 3
    /\ SameHashAndRound(arg.votes, 2)
    /\ arg.votes[3].value.value_hash # arg.votes[1].value.value_hash
    /\ certs["self"] = None

\* C3 as stated: new applied to any permutation of the same set of
\* (public_key, signature) pairs yields the same certificate.
C3_AnyPermutationSameCertificate ==
    (last.op = "new" /\ DistinctPairs(Pairs(arg.votes))) =>
        \A p \in Permutations(1..Len(arg.votes)) :
            LiteCertificate_new(arg.value, arg.round,
                                Permuted(Pairs(arg.votes), p))
                = certs["self"][1]

\* C3, amended: when the public keys of the pairs are pairwise distinct, new
\* applied to any permutation of the pairs yields the same certificate, its
\* signature list sorted ascending by public key.
C3_DistinctKeysSameCertificate ==
    (last.op = "new" /\ DistinctKeys(Pairs(arg.votes))) =>
        /\ SortedByKey(certs["self"][1].signatures)
        /\ \A p \in Permutations(1..Len(arg.votes)) :
              LiteCertificate_new(arg.value, arg.round,
                                  Permuted(Pairs(arg.votes), p))
                  = certs["self"][1]

\* three pairs with distinct keys, given out of order
C3_Witness ==
    /\ last.op = "new"
    /\ Len(arg.votes) = 3
    /\ DistinctKeys(Pairs(arg.votes))
    /\ ~SortedByKey(Pairs(arg.votes))
    /\ SortedByKey(certs["self"][1].signatures)

\* C10: a certificate returned by try_from_votes has the first vote's value
\* and round, and its signature list holds one entry for each input vote,
\* sorted ascending by public key: none dropped, none deduplicated.
C10_OneSignaturePerVote ==
    (last.op = "try_from_votes" /\ certs["self"] # None) =>
        LET votes == arg.votes
            cert == certs["self"][1]
        IN  /\ cert.value = votes[1].value
            /\ cert.round = votes[1].round
            /\ Len(cert.signatures) = Len(votes)
            /\ SortedByKey(cert.signatures)
            /\ \A i \in 1..Len(votes) :
                  Count(cert.signatures, Pairs(votes)[i])
                      = Count(Pairs(votes), Pairs(votes)[i])

\* three votes, two of them by the same validator
C10_Witness ==
    /\ last.op = "try_from_votes"
    /\ certs["self"] # None
    /\ Len(arg.votes) = 3
    /\ Cardinality(Keys(Pairs(arg.votes))) = 2
    /\ Len(certs["self"][1].signatures) = 3

AllVerify(self, except) ==
    \A i \in 1..Len(self.signatures) :
        self.signatures[i][1] \notin except =>
            verify(self.signatures[i][1], self.signatures[i][2],
                   self.value.value_hash, self.round, self.value.kind)

\* C2: check returns Ok (with the certificate's own value) only if every
\* signer is a validator of the committee, every signature verifies for
\* (value_hash, round, kind) and the signers' summed weight reaches the
\* quorum threshold; with unit weights for A, B, C, D and threshold 3,
\* valid signatures of A, B, C pass, of A, B fail with insufficient quorum,
\* and a list with the non-member E fails with unknown validator whatever
\* other valid signatures it holds.
C2_CheckQuorum ==
    last.op = "check" =>
        LET self == last.self
            committee == last.committee
            ret == last.ret
        IN  /\ ret[1] = "Ok" =>
                  /\ ret[2] = self.value
                  /\ Keys(self.signatures) \subseteq committee.validators
                  /\ AllVerify(self, {})
                  /\ SumWeights(self.signatures, committee)
                         >= committee.quorum_threshold
            /\ (/\ committee = UnitCommittee
                /\ DistinctKeys(self.signatures)
                /\ AllVerify(self, {E})) =>
                  /\ Keys(self.signatures) = {A, B, C} => ret[1] = "Ok"
                  /\ Keys(self.signatures) = {A, B}
                        => ret = <<"Err", "InsufficientQuorum">>
                  /\ E \in Keys(self.signatures)
                        => ret = <<"Err", "UnknownValidator">>

\* A, B, C pass the unit committee
C2_Witness ==
    /\ last.op = "check"
    /\ last.committee = UnitCommittee
    /\ Keys(last.self.signatures) = {A, B, C}
    /\ last.ret = <<"Ok", last.self.value>>

\* C4: with_value returns a GenericCertificate exactly when check_value is
\* true of the same certificate and payload, that is when the payload's
\* chain id, kind and hash equal the descriptor's; the GenericCertificate
\* holds the payload and the certificate's round and signature list.
C4_WithValueIffCheckValue ==
    last.op = "with_value" =>
        LET self == last.self
            value == last.value
            ret == last.ret
        IN  /\ ret # None <=> check_value(self, value)
            /\ ret # None <=> (/\ chain_id(value) = self.value.chain_id
                               /\ KIND(value) = self.value.kind
                               /\ hash(value) = self.value.value_hash)
            /\ ret # None =>
                  /\ ret[1].value = value
                  /\ ret[1].round = self.round
                  /\ ret[1].signatures = self.signatures
            /\ generic = ret

\* a certificate of three signatures bound to its payload
C4_Witness ==
    /\ last.op = "with_value"
    /\ last.ret # None
    /\ Len(last.self.signatures) = 3
    /\ generic # None

HashDiffers == hash(last.value) # last.self.value.value_hash

\* C5 as stated: after with_value with a payload of another hash the result
\* is None and the certificate is still there, the same as before.
C5_OriginalRemainsUsable ==
    (last.op = "with_value" /\ HashDiffers) =>
        /\ last.ret = None
        /\ certs[last.handle] = Some(last.self)

\* C5, amended: with_value with a payload of another hash returns None and
\* consumes the certificate it was called on (self is taken by value); a
\* copy made before with cloned() is left as it was.
C5_MismatchConsumesCertificate ==
    [][(last'.op = "with_value" /\ HashDiffers') =>
          /\ last'.ret = None
          /\ generic' = None
          /\ certs[last'.handle] = Some(last'.self)
          /\ certs'[last'.handle] = None
          /\ \A h \in Handles \ {last'.handle} : certs'[h] = certs[h]
      ]_vars

\* the certificate was moved out of "self", its copy is still held
C5_Witness ==
    /\ last.op = "with_value"
    /\ HashDiffers
    /\ last.handle = "self"
    /\ last.ret = None
    /\ certs["self"] = None
    /\ certs["copy"] = Some(last.self)

\* C6 as stated: a certificate is bound to a payload (Materialized) only
\* after a check of it has succeeded (Certified).
C6_MaterializedOnlyAfterCertified == generic # None => checked

\* C6, amended: a certificate is bound to a payload only by with_value on a
\* constructed certificate whose descriptor the payload matches, and the
\* bound certificate is moved out of its handle; a successful check is not
\* needed for it, and check changes neither the certificate nor the binding.
C6_MaterializedOnlyFromMatching ==
    [][/\ generic' # generic =>
             \E h \in Handles :
                /\ certs[h] # None
                /\ certs'[h] = None
                /\ check_value(certs[h][1], generic'[1].value)
                /\ generic'[1].round = certs[h][1].round
                /\ generic'[1].signatures = certs[h][1].signatures
       /\ last'.op = "check" => certs' = certs /\ generic' = generic
      ]_vars

\* bound to its payload without any successful check
C6_Witness ==
    /\ generic # None
    /\ ~checked
    /\ last.op = "with_value"


(***************************************************************************)
(* Two MapViews written to in any order, and hashed.                       *)
(***************************************************************************)
\* the keys written to the two maps are 1..MaxKey
MaxKey == 2
\* the indices of the collection are 1..MaxIndex
MaxIndex == 2

MapIndices == 1..MaxKey
MapValues == {0, 1}

InitMap == NoCertificate /\ NoViews

MapInsert ==
    \E m \in MapIds, index \in MapIndices, value \in MapValues :
        /\ maps' = [maps EXCEPT ![m] = MapView_insert(maps[m], index, value)]
        /\ vlast' = [op |-> "insert"]
        /\ UNCHANGED <<coll, sibling>>
        /\ UNCHANGED certVars

MapRemove ==
    \E m \in MapIds :
        \E index \in MapKeys(maps[m]) :
            /\ maps' = [maps EXCEPT ![m] = MapView_remove(maps[m], index)]
            /\ vlast' = [op |-> "remove"]
            /\ UNCHANGED <<coll, sibling>>
            /\ UNCHANGED certVars

\* maps[m].hash()
MapHash ==
    \E m \in MapIds :
        /\ vlast' = [op |-> "map_hash", self |-> maps[m],
                     ret |-> MapView_hash(maps[m])]
        /\ UNCHANGED <<maps, coll, sibling>>
        /\ UNCHANGED certVars

NextMap == MapInsert \/ MapRemove \/ MapHash
SpecMap == InitMap /\ [][NextMap]_vars

(***************************************************************************)
(* A CollectionView of MapViews with a MapView beside it; the store may    *)
(* lose a value or an entry that it still enumerates.                      *)
(***************************************************************************)
CollectionIndices == 1..MaxIndex
ChildIndices == {1}

InitCollection == NoCertificate /\ NoViews

\* coll.load_entry(index).insert(key, value)
EntryInsert ==
    \E index \in CollectionIndices, key \in ChildIndices, value \in MapValues :
        /\ index \notin coll.lost
        /\ coll' = WithEntry(coll, index,
                       MapView_insert(load_entry(coll, index, "Err")[2],
                                      key, value))
        /\ vlast' = [op |-> "write"]
        /\ UNCHANGED <<maps, sibling>>
        /\ UNCHANGED certVars

\* coll.remove_entry(index)
EntryRemove ==
    \E index \in DOMAIN coll.children :
        /\ coll' = CollectionView_remove_entry(coll, index)
        /\ vlast' = [op |-> "write"]
        /\ UNCHANGED <<maps, sibling>>
        /\ UNCHANGED certVars

SiblingInsert ==
    \E key \in ChildIndices, value \in MapValues :
        /\ sibling' = MapView_insert(sibling, key, value)
        /\ vlast' = [op |-> "write"]
        /\ UNCHANGED <<maps, coll>>
        /\ UNCHANGED certVars

\* the store loses the value of a key of the sibling map
LoseSiblingValue ==
    \E key \in MapKeys(sibling) \ sibling.lost :
        /\ sibling' = [sibling EXCEPT !.lost = @ \cup {key}]
        /\ vlast' = [op |-> "fault"]
        /\ UNCHANGED <<maps, coll>>
        /\ UNCHANGED certVars

\* the store loses the value of a key of a child map
LoseChildValue ==
    \E index \in DOMAIN coll.children :
        \E key \in MapKeys(coll.children[index]) \ coll.children[index].lost :
            /\ coll' = [coll EXCEPT !.children[index].lost = @ \cup {key}]
            /\ vlast' = [op |-> "fault"]
            /\ UNCHANGED <<maps, sibling>>
            /\ UNCHANGED certVars

\* the store loses an entry of the collection
LoseEntry ==
    \E index \in DOMAIN coll.children \ coll.lost :
        /\ coll' = [coll EXCEPT !.lost = @ \cup {index}]
        /\ vlast' = [op |-> "fault"]
        /\ UNCHANGED <<maps, sibling>>
        /\ UNCHANGED certVars

\* sibling.hash()
SiblingHash ==
    /\ vlast' = [op |-> "map_hash", self |-> sibling,
                 ret |-> MapView_hash(sibling)]
    /\ UNCHANGED <<maps, coll, sibling>>
    /\ UNCHANGED certVars

\* coll.hash()
CollectionHash ==
    \E onMissing \in OnMissing :
        /\ vlast' = [op |-> "collection_hash", self |-> coll,
                     onMissing |-> onMissing,
                     ret |-> CollectionView_hash(coll, onMissing)]
        /\ UNCHANGED <<maps, coll, sibling>>
        /\ UNCHANGED certVars

NextCollection ==
    \/ EntryInsert \/ EntryRemove \/ SiblingInsert
    \/ LoseSiblingValue \/ LoseChildValue \/ LoseEntry
    \/ SiblingHash \/ CollectionHash
SpecCollection == InitCollection /\ [][NextCollection]_vars

(***************************************************************************)
(* Properties of hashing.                                                  *)
(***************************************************************************)
\* the (key, value) entries of a map
Entries(m) == {m.entries[i] : i \in 1..Len(m.entries)}

\* each key of S followed by its value, in ascending key order
RECURSIVE KeyValueBytes(_)
KeyValueBytes(S) ==
    IF S = {} THEN <<>>
    ELSE LET e == CHOOSE x \in S : \A y \in S : x[1] <= y[1]
         IN  <<e[1], e[2]>> \o KeyValueBytes(S \ {e})

MapDigestInput(S) ==
    <<Cardinality(S), 0, 0, 0, 0, 0, 0, 0>> \o KeyValueBytes(S)

\* C7: the hash of a map depends on its set of entries alone, not on the
\* order they were inserted in: two maps with the same entries have the same
\* hash, the digest of the entry count followed by each key and its value in
\* ascending key order.
C7_MapHashOrderInsensitive ==
    \A m1, m2 \in MapIds :
        Entries(maps[m1]) = Entries(maps[m2]) =>
            /\ MapView_hash(maps[m1]) = MapView_hash(maps[m2])
            /\ MapView_hash(maps[m1])
                  = <<"Ok", finalize(MapDigestInput(Entries(maps[m1])))>>

\* the same two entries inserted in opposite orders, and one map hashed
C7_Witness ==
    /\ Entries(maps[1]) = Entries(maps[2])
    /\ Len(maps[1].entries) = 2
    /\ maps[1].entries # maps[2].entries
    /\ vlast.op = "map_hash"
    /\ vlast.self = maps[1]
    /\ vlast.ret = MapView_hash(maps[2])

Consistent(c) ==
    /\ c.lost = {}
    /\ \A i \in DOMAIN c.children : c.children[i].lost = {}

ChildHash(c, i) == MapView_hash(c.children[i])

\* each index of S followed by the digest of its child, ascending
RECURSIVE IndexDigestBytes(_, _)
IndexDigestBytes(c, S) ==
    IF S = {} THEN <<>>
    ELSE LET i == CHOOSE x \in S : \A y \in S : x <= y
         IN  <<i>> \o ChildHash(c, i)[2] \o IndexDigestBytes(c, S \ {i})

CollectionDigestInput(c) ==
    <<Cardinality(DOMAIN c.children), 0, 0, 0, 0, 0, 0, 0>>
        \o IndexDigestBytes(c, DOMAIN c.children)

ChildrenDiffer(c, d) ==
    \/ DOMAIN c.children # DOMAIN d.children
    \/ \E i \in DOMAIN c.children : ChildHash(c, i) # ChildHash(d, i)

\* C8: the hash of a collection is the digest of the index count followed,
\* for each index in ascending order, by the index and the raw bytes of its
\* child's digest; so a step changes it if and only if it changes a child's
\* hash or the index set (and with it the count), and a write to a map that
\* is no child of the collection leaves it as it was.
C8_CollectionHashCompositional ==
    [][(Consistent(coll) /\ Consistent(coll')) =>
          /\ CollectionView_hash(coll', "Err")
                = <<"Ok", finalize(CollectionDigestInput(coll'))>>
          /\ CollectionView_hash(coll', "Err") # CollectionView_hash(coll, "Err")
                <=> ChildrenDiffer(coll, coll')
          /\ sibling' # sibling
                => CollectionView_hash(coll', "Err")
                      = CollectionView_hash(coll, "Err")
      ]_vars

\* a collection of two children hashed, beside a sibling that was written to
C8_Witness ==
    /\ vlast.op = "collection_hash"
    /\ vlast.self = coll
    /\ Consistent(coll)
    /\ DOMAIN coll.children = {1, 2}
    /\ coll.children[1] # coll.children[2]
    /\ sibling.entries # <<>>
    /\ vlast.ret = <<"Ok", finalize(CollectionDigestInput(coll))>>

ChildrenConsistent(c) == \A i \in DOMAIN c.children : c.children[i].lost = {}

\* C9 as stated: hashing a map or a collection with an index that is
\* enumerated but not found by the lookup is fatal.
C9_MissingIndexIsFatal ==
    /\ (vlast.op = "map_hash" /\ vlast.self.lost # {})
          => vlast.ret[1] = "Panic"
    /\ (vlast.op = "collection_hash" /\ vlast.self.lost # {})
          => vlast.ret[1] = "Panic"

\* C9, amended: hashing a map with a key that is enumerated but whose value
\* the lookup does not find is fatal (no digest, no error value, the key
\* neither skipped nor hashed with a default), also when the map is hashed
\* as a child of a collection.  Hashing a collection has no such check of
\* its own indices: what load_entry returns for the index is used, a failure
\* returned as an ordinary error and a materialized view hashed as a child.
C9_MissingMapValueIsFatal ==
    /\ (vlast.op = "map_hash" /\ vlast.self.lost # {})
          => vlast.ret[1] = "Panic"
    /\ (vlast.op = "collection_hash" /\ vlast.self.lost = {}
           /\ ~ChildrenConsistent(vlast.self))
          => vlast.ret[1] = "Panic"
    /\ (vlast.op = "collection_hash" /\ vlast.self.lost # {}
           /\ ChildrenConsistent(vlast.self))
          => /\ vlast.onMissing = "Err"
                   => vlast.ret = <<"Err", "StorageError">>
             /\ vlast.onMissing = "Default" => vlast.ret[1] = "Ok"

\* a map with a lost value hashed: the call panicked
C9_Witness ==
    /\ vlast.op = "map_hash"
    /\ vlast.self.lost # {}
    /\ vlast.ret[1] = "Panic"

====
